---- MODULE Spec2Model ----
(***************************************************************************)
(* Model of ae/core/skills/compose_email.py: the skill compose_email (the  *)
(* "Skill Entry Point") and do_compose_email (the "Field-Fill Sequencer"). *)
(* Every awaited call is one step; text is kept as text, so formatting and *)
(* the substring test on the summary are computed, not assumed.            *)
(***************************************************************************)
EXTENDS Integers, Sequences, FiniteSets, TLC

\* ------------------------------------------------------------------ bounds
\* Number of invocations a caller may make one after the other.
MaxInvocations == 2

\* --------------------------------------------------------- program constants
\* body[:50] in the detailed message of a success outcome.
BodySliceLen == 50
\* timeout= of page.wait_for_url.
LandingTimeout == 30000

\* ------------------------------------------------------------------- inputs
Callers == {1, 2}
\* Callers that run in the sequential specification.
Solo == {1}

Recipients == {"a@b.com", "Error@b.com"}
Subjects == {"Hi", "Re: Error"}
Bodies == {"Hello there",
           "0123456789012345678901234567890123456789012345678901234567890"}

\* Start locations of the page.
StartUrls == {"about:blank", "https://mail.google.com/mail/u/0/#inbox"}
\* os.environ.get gives None (<<>>) or a string (<<s>>).
None == <<>>
Some(s) == <<s>>
EmailValues == {None, Some(""), Some("user@example.com")}
PasswordValues == {None, Some(""), Some("hunter2")}

\* ---------------------------------------------------------------- text
\* Python's `m in t` on strings.
Has(m, t) ==
  IF Len(m) = 0 THEN TRUE
  ELSE \E i \in 1..(Len(t) - Len(m) + 1) : SubSeq(t, i, i + Len(m) - 1) = m

\* Python's t[:n].
Slice(t, n) == IF Len(t) <= n THEN t ELSE SubSeq(t, 1, n)

\* ------------------------------------------------------------ exceptions
\* An exception: its class, its message, and the messages of the exceptions
\* it is chained to (__cause__ / __context__), nearest first.
Exc(type, msg, chain) == [type |-> type, msg |-> msg, chain |-> chain]
NoExc == Exc("", "", <<>>)

\* Class hierarchy: playwright's TimeoutError derives from its Error, which
\* derives from Exception, as does ValueError.
IsInstance(type, cls) ==
  \/ type = cls
  \/ cls = "Exception" /\ type \in {"ValueError", "Error", "PlaywrightTimeoutError"}
  \/ cls = "Error" /\ type = "PlaywrightTimeoutError"

\* How an awaited collaborator call can end.
Results == {"ok", "timeout", "error"}
Failure(res) ==
  IF res = "timeout"
  THEN Exc("PlaywrightTimeoutError", "Timeout 30000ms exceeded.", <<>>)
  ELSE Exc("Error", "Target page, context or browser has been closed", <<>>)

\* ------------------------------------------------------------- messages
NoPageMsg == "Error: No active page found. OpenURL command opens a new page."
NoCredentialsMsg == "EMAIL or PASSWORD environment variables are not set."

TimeoutMsg(e) ==
  "Timeout error: " \o e.msg
    \o ". The page might be loading slowly or the element might not be present."

FormatExc(e) == "Traceback (most recent call last): " \o e.type \o ": " \o e.msg
GenericMsg(e) ==
  "Failed to compose email. Error: " \o e.msg \o "\n" \o FormatExc(e)

\* The Operation Outcome of do_compose_email.
NoOutcome == [summary_message |-> "", detailed_message |-> ""]

SuccessMsgMutant(recipient) == "Email composed successfully."
SuccessMsg(recipient) == "Email composed successfully for " \o recipient \o "."

SuccessOutcome(recipient, subject, body) ==
  [summary_message |-> SuccessMsg(recipient),
   detailed_message |-> SuccessMsg(recipient) \o " Subject: '" \o subject
       \o "', Body: '" \o Slice(body, BodySliceLen) \o "...'"]

ErrorSummary(recipient) == "Error composing email for " \o recipient \o "."
ErrorOutcome(recipient, e) ==
  [summary_message |-> ErrorSummary(recipient),
   detailed_message |-> ErrorSummary(recipient) \o " Error: " \o e.msg]

\* `"Error" in result["summary_message"]`
IndicatesErrorMutant(result) == FALSE
IndicatesError(result) == Has("Error", result.summary_message)

\* ------------------------------------------------------------------ state
VARIABLES
  pc,       \* pc[p]: where caller p's invocation stands
  calls,    \* calls[p]: invocations caller p has started
  req,      \* req[p]: the Skill Request of the invocation
  page,     \* page[p]: what get_current_page gave ("unset", "none", "page")
  trace,    \* trace[p]: the collaborator calls made and how each ended, in order
  outcome,  \* outcome[p]: what do_compose_email returned
  exc,      \* exc[p]: the exception being handled
  cred,     \* cred[p]: the locals email and password
  result,   \* result[p]: how the invocation ended
  url,      \* page.url of the shared page
  environ,  \* process environment: EMAIL and PASSWORD
  fields,   \* text in the compose surface: recipient, subject, body
  focus     \* focused field of the compose surface (0: none, 4: past body)

vars == <<pc, calls, req, page, trace, outcome, exc, cred, result,
          url, environ, fields, focus>>

NoCred == [email |-> None, password |-> None]
NoReq == [recipient |-> "", subject |-> "", body |-> ""]
NoResult == [kind |-> "none", value |-> "", type |-> "", chain |-> <<>>]
Returned(v) == [kind |-> "returned", value |-> v, type |-> "", chain |-> <<>>]
Raised(e) == [kind |-> "raised", value |-> e.msg, type |-> e.type, chain |-> e.chain]

\* One call on the page or the configuration, and how it ended.
Entry(op, target, text, timeout, res) ==
  [op |-> op, target |-> target, text |-> text, timeout |-> timeout, res |-> res]

Init ==
  /\ pc = [p \in Callers |-> "idle"]
  /\ calls = [p \in Callers |-> 0]
  /\ req = [p \in Callers |-> NoReq]
  /\ page = [p \in Callers |-> "unset"]
  /\ trace = [p \in Callers |-> <<>>]
  /\ outcome = [p \in Callers |-> NoOutcome]
  /\ exc = [p \in Callers |-> NoExc]
  /\ cred = [p \in Callers |-> NoCred]
  /\ result = [p \in Callers |-> NoResult]
  /\ url \in StartUrls
  /\ \E e \in EmailValues, w \in PasswordValues :
       environ = [n \in {"EMAIL", "PASSWORD"} |-> IF n = "EMAIL" THEN e ELSE w]
  /\ fields = <<"", "", "">>
  /\ focus = 0

\* ------------------------------------------------------- control transfer
GoTo(p, label) == pc' = [pc EXCEPT ![p] = label]

\* The except clauses of compose_email's try, in their order.
HandlerForMutant(e) == "except_exception"
HandlerFor(e) ==
  IF IsInstance(e.type, "PlaywrightTimeoutError") THEN "except_timeout"
  ELSE "except_exception"

\* An exception raised inside compose_email's try block.
Raise(p, e) ==
  /\ exc' = [exc EXCEPT ![p] = e]
  /\ GoTo(p, HandlerFor(e))

Record(p, e) == trace' = [trace EXCEPT ![p] = Append(@, e)]

\* An awaited call inside the try block: recorded, then either the
\* workflow goes on at `next` or the call's failure is raised.
Await(p, op, target, text, timeout, res, next) ==
  /\ Record(p, Entry(op, target, text, timeout, res))
  /\ IF res = "ok"
     THEN GoTo(p, next) /\ exc' = exc
     ELSE Raise(p, Failure(res))

\* ------------------------------------------------------------ compose_email
\* The orchestrator calls the skill.
Invoke(p) ==
  /\ pc[p] \in {"idle", "done"}
  /\ calls[p] < MaxInvocations
  /\ \E r \in Recipients, s \in Subjects, b \in Bodies :
       req' = [req EXCEPT ![p] = [recipient |-> r, subject |-> s, body |-> b]]
  /\ calls' = [calls EXCEPT ![p] = @ + 1]
  /\ page' = [page EXCEPT ![p] = "unset"]
  /\ trace' = [trace EXCEPT ![p] = <<>>]
  /\ outcome' = [outcome EXCEPT ![p] = NoOutcome]
  /\ exc' = [exc EXCEPT ![p] = NoExc]
  /\ cred' = [cred EXCEPT ![p] = NoCred]
  /\ result' = [result EXCEPT ![p] = NoResult]
  /\ GoTo(p, "get_current_page")
  /\ UNCHANGED <<url, environ, fields, focus>>

\* What follows `page = await browser_manager.get_current_page()`; the call
\* is made before the try block, so its own failure leaves the skill as is.
AfterGetPageMutant(p, got) ==
  /\ page' = [page EXCEPT ![p] = got]
  /\ GoTo(p, "take_screenshots_start")
  /\ UNCHANGED result
AfterGetPage(p, got) ==
  /\ page' = [page EXCEPT ![p] = IF got \in {"page", "none"} THEN got ELSE "unset"]
  /\ IF got = "page"
     THEN GoTo(p, "take_screenshots_start") /\ UNCHANGED result
     ELSE /\ GoTo(p, "done")
          /\ result' = [result EXCEPT ![p] =
               IF got = "none" THEN Raised(Exc("ValueError", NoPageMsg, <<>>))
               ELSE Raised(Failure(got))]

GetCurrentPage(p) ==
  /\ pc[p] = "get_current_page"
  /\ \E got \in {"page", "none", "timeout", "error"} : AfterGetPage(p, got)
  /\ UNCHANGED <<calls, req, trace, outcome, exc, cred,
                 url, environ, fields, focus>>

\* `if "mail.google.com" not in page.url`
AtGmailMutant(u) == Has("https://mail.google.com/mail/", u)
AtGmail(u) == Has("mail.google.com", u)

\* The start snapshot and, once it is taken, the read of page.url that
\* decides on the navigation.
TakeScreenshotsStart(p) ==
  /\ pc[p] = "take_screenshots_start"
  /\ \E res \in Results :
       IF res = "ok"
       THEN /\ trace' = [trace EXCEPT ![p] =
                 @ \o <<Entry("take_screenshots", "compose_email_start", "", 0, "ok"),
                        Entry("url", "", url, 0, "ok")>>]
            /\ GoTo(p, IF AtGmail(url) THEN "is_visible" ELSE "goto")
            /\ exc' = exc
       ELSE Await(p, "take_screenshots", "compose_email_start", "", 0, res, "")
  /\ UNCHANGED <<calls, req, page, outcome, cred, result,
                 url, environ, fields, focus>>

Goto(p) ==
  /\ pc[p] = "goto"
  /\ \E res \in Results :
       /\ Await(p, "goto", "https://mail.google.com/", "networkidle", 0, res,
                "is_visible")
       /\ url' = IF res = "ok" THEN "https://mail.google.com/" ELSE url
  /\ UNCHANGED <<calls, req, page, outcome, cred, result,
                 environ, fields, focus>>

\* `not email or not password`
Falsy(v) == v = None \/ v = Some("")
CredentialsMissingMutant(c) == Falsy(c.email) /\ Falsy(c.password)
CredentialsMissing(c) == Falsy(c.email) \/ Falsy(c.password)

\* os.environ.get(name)
EnvironGet(name) == environ[name]

\* The body of `if await sign_in_button.is_visible():` up to the first await.
SignInRequired(p) ==
  LET c == [email |-> EnvironGet("EMAIL"), password |-> EnvironGet("PASSWORD")]
  IN /\ trace' = [trace EXCEPT ![p] =
            @ \o <<Entry("is_visible", "link:Sign in", "", 0, "visible"),
                   Entry("environ.get", "EMAIL", "", 0, "ok"),
                   Entry("environ.get", "PASSWORD", "", 0, "ok")>>]
     /\ cred' = [cred EXCEPT ![p] = c]
     /\ IF CredentialsMissing(c)
        THEN Raise(p, Exc("ValueError", NoCredentialsMsg, <<>>))
        ELSE GoTo(p, "sign_in_click") /\ exc' = exc

\* The else branch: no sign-in required.
SignInNotRequiredMutant(p) ==
  /\ trace' = [trace EXCEPT ![p] =
         @ \o <<Entry("is_visible", "link:Sign in", "", 0, "hidden"),
                Entry("environ.get", "EMAIL", "", 0, "ok")>>]
  /\ GoTo(p, "compose_click") /\ UNCHANGED <<exc, cred>>
SignInNotRequired(p) ==
  /\ Record(p, Entry("is_visible", "link:Sign in", "", 0, "hidden"))
  /\ GoTo(p, "compose_click") /\ UNCHANGED <<exc, cred>>

IsVisible(p) ==
  /\ pc[p] = "is_visible"
  /\ \/ SignInRequired(p)
     \/ SignInNotRequired(p)
     \/ \E res \in Results \ {"ok"} :
          /\ Await(p, "is_visible", "link:Sign in", "", 0, res, "")
          /\ UNCHANGED cred
  /\ UNCHANGED <<calls, req, page, outcome, result,
                 url, environ, fields, focus>>

\* ------------------------------------------------- the authentication branch
\* A step of the branch that changes nothing but the page's own state.
PageStep(p, at, op, target, text, timeout, next) ==
  /\ pc[p] = at
  /\ \E res \in Results : Await(p, op, target, text, timeout, res, next)
  /\ UNCHANGED <<calls, req, page, outcome, cred, result,
                 url, environ, fields, focus>>

SignInClick(p) ==
  PageStep(p, "sign_in_click", "click", "link:Sign in", "", 0, "fill_email")

FillEmail(p) ==
  PageStep(p, "fill_email", "fill", "label:Email or phone",
           cred[p].email[1], 0, "click_next")

ClickNext(p) ==
  PageStep(p, "click_next", "click", "button:Next", "", 0, "wait_for_password")

WaitForPassword(p) ==
  PageStep(p, "wait_for_password", "wait_for_selector",
           "input[type=\"password\"]", "visible", 0, "password_click")

PasswordClick(p) ==
  PageStep(p, "password_click", "click", "label:Enter your password", "", 0,
           "password_fill")

PasswordFill(p) ==
  PageStep(p, "password_fill", "fill", "label:Enter your password",
           cred[p].password[1], 0, "password_press")

PasswordPressMutant(p) ==
  PageStep(p, "password_press", "press", "label:Enter your password", "Enter",
           0, "compose_click")
PasswordPress(p) ==
  PageStep(p, "password_press", "press", "label:Enter your password", "Enter",
           0, "wait_for_url")

LandingUrl == "https://mail.google.com/mail/u/0/"

WaitForUrl(p) ==
  /\ pc[p] = "wait_for_url"
  /\ \E res \in Results :
       /\ Await(p, "wait_for_url", LandingUrl, "", LandingTimeout, res,
                "compose_click")
       /\ url' = IF res = "ok" THEN LandingUrl ELSE url
  /\ UNCHANGED <<calls, req, page, outcome, cred, result,
                 environ, fields, focus>>

\* ------------------------------------------------- opening the compose surface
\* A click that succeeds opens an empty surface with the recipient focused.
ComposeClickMutant(p) ==
  /\ pc[p] = "compose_click"
  /\ \E res \in Results :
       /\ Record(p, Entry("click", "button:Compose", "", 0, res))
       /\ GoTo(p, IF res = "ok" THEN "wait_for_new_message" ELSE "compose_click")
       /\ fields' = IF res = "ok" THEN <<"", "", "">> ELSE fields
       /\ focus' = IF res = "ok" THEN 1 ELSE focus
  /\ UNCHANGED <<calls, req, page, outcome, exc, cred, result, url, environ>>
ComposeClick(p) ==
  /\ pc[p] = "compose_click"
  /\ \E res \in Results :
       /\ Await(p, "click", "button:Compose", "", 0, res, "wait_for_new_message")
       /\ fields' = IF res = "ok" THEN <<"", "", "">> ELSE fields
       /\ focus' = IF res = "ok" THEN 1 ELSE focus
  /\ UNCHANGED <<calls, req, page, outcome, cred, result, url, environ>>

WaitForNewMessageMutant(p) ==
  pc[p] = "wait_for_new_message" /\ UNCHANGED vars
WaitForNewMessageIgnoredMutant(p) ==
  /\ pc[p] = "wait_for_new_message"
  /\ \E res \in Results :
       Record(p, Entry("wait_for", "text:New Message", "visible", 0, res))
  /\ GoTo(p, "type_recipient")
  /\ UNCHANGED <<calls, req, page, outcome, exc, cred, result,
                 url, environ, fields, focus>>
WaitForNewMessage(p) ==
  PageStep(p, "wait_for_new_message", "wait_for", "text:New Message", "visible",
           0, "type_recipient")

\* ---------------------------------------------------------- do_compose_email
\* `except Exception as e:` of do_compose_email.
SequencerCatchesMutant(e) == ~IsInstance(e.type, "PlaywrightTimeoutError")
SequencerCatches(e) == IsInstance(e.type, "Exception")

\* A failing keyboard action: turned into an error outcome and returned to
\* compose_email when the except clause catches it.
SequencerFails(p, e) ==
  IF SequencerCatches(e)
  THEN /\ outcome' = [outcome EXCEPT ![p] = ErrorOutcome(req[p].recipient, e)]
       /\ GoTo(p, "inspect") /\ exc' = exc
  ELSE Raise(p, e) /\ outcome' = outcome

\* What the page does with typed text and with Tab.
Typed(text) ==
  IF focus \in 1..3 THEN [fields EXCEPT ![focus] = @ \o text] ELSE fields
Tabbed == IF focus \in 1..3 THEN focus + 1 ELSE focus

\* page.keyboard.type(text), followed by the workflow's next action.
KeyboardType(p, at, text, next) ==
  /\ pc[p] = at
  /\ \E res \in Results :
       /\ Record(p, Entry("keyboard.type", "", text, 0, res))
       /\ IF res = "ok"
          THEN /\ fields' = Typed(text)
               /\ GoTo(p, next) /\ UNCHANGED <<exc, outcome>>
          ELSE /\ fields' = fields
               /\ SequencerFails(p, Failure(res))
  /\ UNCHANGED <<calls, req, page, cred, result, url, environ, focus>>

\* page.keyboard.press("Tab")
KeyboardTabMutant(p, at, next) ==
  /\ pc[p] = at
  /\ \E res \in Results :
       /\ Record(p, Entry("keyboard.press", "", "Tab", 0, res))
       /\ focus' = IF res = "ok" THEN Tabbed ELSE focus
  /\ GoTo(p, next)
  /\ UNCHANGED <<calls, req, page, cred, result, url, environ, fields, exc, outcome>>
KeyboardTab(p, at, next) ==
  /\ pc[p] = at
  /\ \E res \in Results :
       /\ Record(p, Entry("keyboard.press", "", "Tab", 0, res))
       /\ IF res = "ok"
          THEN /\ focus' = Tabbed
               /\ GoTo(p, next) /\ UNCHANGED <<exc, outcome>>
          ELSE /\ focus' = focus
               /\ SequencerFails(p, Failure(res))
  /\ UNCHANGED <<calls, req, page, cred, result, url, environ, fields>>

TypeRecipientMutant(p) ==
  /\ \A q \in Callers \ {p} :
       pc[q] \notin {"type_recipient", "tab_recipient", "type_subject",
                     "tab_subject", "type_body"}
  /\ KeyboardType(p, "type_recipient", req[p].recipient, "tab_recipient")
TypeRecipient(p) ==
  KeyboardType(p, "type_recipient", req[p].recipient, "tab_recipient")

TabRecipient(p) == KeyboardTab(p, "tab_recipient", "type_subject")

TypeSubject(p) == KeyboardType(p, "type_subject", req[p].subject, "tab_subject")

TabSubjectMutant(p) ==
  /\ pc[p] = "tab_subject"
  /\ GoTo(p, "type_body")
  /\ UNCHANGED <<calls, req, page, trace, outcome, exc, cred, result,
                 url, environ, fields, focus>>
TabSubject(p) == KeyboardTab(p, "tab_subject", "type_body")

TypeBody(p) == KeyboardType(p, "type_body", req[p].body, "sequencer_return")

\* The success return of do_compose_email.
SequencerReturn(p) ==
  /\ pc[p] = "sequencer_return"
  /\ outcome' = [outcome EXCEPT ![p] =
       SuccessOutcome(req[p].recipient, req[p].subject, req[p].body)]
  /\ GoTo(p, "inspect")
  /\ UNCHANGED <<calls, req, page, trace, exc, cred, result,
                 url, environ, fields, focus>>

\* ----------------------------------------------- compose_email, after the call
\* `if "Error" in result["summary_message"]: raise ValueError(...)`
Inspect(p) ==
  /\ pc[p] = "inspect"
  /\ IF IndicatesError(outcome[p])
     THEN Raise(p, Exc("ValueError", outcome[p].detailed_message, <<>>))
     ELSE GoTo(p, "notify_success") /\ exc' = exc
  /\ UNCHANGED <<calls, req, page, trace, outcome, cred, result,
                 url, environ, fields, focus>>

\* notify_user(success_message, message_type=MessageType.ACTION)
NotifySuccessMutant(p) ==
  /\ pc[p] = "notify_success"
  /\ \E res \in Results :
       Record(p, Entry("notify_user", "ACTION", outcome[p].summary_message, 0, res))
  /\ GoTo(p, "take_screenshots_end")
  /\ UNCHANGED <<calls, req, page, outcome, exc, cred, result,
                 url, environ, fields, focus>>
NotifySuccess(p) ==
  /\ pc[p] = "notify_success"
  /\ \E res \in Results :
       Await(p, "notify_user", "ACTION", outcome[p].summary_message, 0, res,
             "take_screenshots_end")
  /\ UNCHANGED <<calls, req, page, outcome, cred, result,
                 url, environ, fields, focus>>

\* take_screenshots(f"{function_name}_end", page); return success_message
TakeScreenshotsEnd(p) ==
  /\ pc[p] = "take_screenshots_end"
  /\ \E res \in Results :
       /\ Await(p, "take_screenshots", "compose_email_end", "", 0, res, "done")
       /\ result' = [result EXCEPT ![p] =
            IF res = "ok" THEN Returned(outcome[p].summary_message) ELSE @]
  /\ UNCHANGED <<calls, req, page, outcome, cred,
                 url, environ, fields, focus>>

\* A handler: notify_user(error_message, ERROR), then
\* `raise ValueError(error_message) from e`. A failure of notify_user itself
\* leaves the skill, with e as its context.
HandleMutant(p, msg) ==
  /\ trace' = trace
  /\ result' = [result EXCEPT ![p] =
       Raised(Exc("ValueError", msg, <<exc[p].msg>> \o exc[p].chain))]
  /\ GoTo(p, "done")
Handle(p, msg) ==
  LET e == exc[p]
      chain == <<e.msg>> \o e.chain
  IN \E res \in Results :
       /\ Record(p, Entry("notify_user", "ERROR", msg, 0, res))
       /\ result' = [result EXCEPT ![p] =
            IF res = "ok" THEN Raised(Exc("ValueError", msg, chain))
            ELSE Raised(Exc(Failure(res).type, Failure(res).msg, chain))]
       /\ GoTo(p, "done")

\* `except PlaywrightTimeoutError as e:`
ExceptTimeout(p) ==
  /\ pc[p] = "except_timeout"
  /\ Handle(p, TimeoutMsg(exc[p]))
  /\ UNCHANGED <<calls, req, page, outcome, exc, cred,
                 url, environ, fields, focus>>

\* `except Exception as e:`
ExceptException(p) ==
  /\ pc[p] = "except_exception"
  /\ Handle(p, GenericMsg(exc[p]))
  /\ UNCHANGED <<calls, req, page, outcome, exc, cred,
                 url, environ, fields, focus>>

\* ----------------------------------------------------------- specification
Step(p) ==
  \/ Invoke(p)
  \/ GetCurrentPage(p)
  \/ TakeScreenshotsStart(p)
  \/ Goto(p)
  \/ IsVisible(p)
  \/ SignInClick(p)
  \/ FillEmail(p)
  \/ ClickNext(p)
  \/ WaitForPassword(p)
  \/ PasswordClick(p)
  \/ PasswordFill(p)
  \/ PasswordPress(p)
  \/ WaitForUrl(p)
  \/ ComposeClick(p)
  \/ WaitForNewMessage(p)
  \/ TypeRecipient(p)
  \/ TabRecipient(p)
  \/ TypeSubject(p)
  \/ TabSubject(p)
  \/ TypeBody(p)
  \/ SequencerReturn(p)
  \/ Inspect(p)
  \/ NotifySuccess(p)
  \/ TakeScreenshotsEnd(p)
  \/ ExceptTimeout(p)
  \/ ExceptException(p)

\* One caller at a time, as the orchestrator is assumed to serialize skills.
Next == \E p \in Solo : Step(p)

Spec == Init /\ [][Next]_vars

\* An invocation under way: every awaited call ends, satisfied, failed or at
\* its timeout ceiling, and the code between two awaits runs on.
Running(p) == pc[p] \notin {"idle", "done"} /\ Step(p)

FairSpec == Spec /\ \A p \in Solo : WF_vars(Running(p))

\* Two invocations on the one page at the same time, one per caller, each
\* with its own request; nothing in the code orders their awaited calls.
\* Caller 1's collaborator calls all succeed, caller 2's may fail anywhere.
RaceRequest(p) ==
  IF p = 1 THEN [recipient |-> "a@b.com", subject |-> "Hi", body |-> "Hello there"]
  ELSE [recipient |-> "a@b.com", subject |-> "Re: Error",
        body |-> "0123456789012345678901234567890123456789012345678901234567890"]

RaceInit ==
  /\ Init
  /\ url = "about:blank"
  /\ environ["EMAIL"] = Some("user@example.com")
  /\ environ["PASSWORD"] = Some("hunter2")

RaceNext ==
  \E p \in Callers :
    /\ pc[p] # "done"
    /\ Step(p)
    /\ req'[p] \in {NoReq, RaceRequest(p)}
    /\ p = 1 => /\ page'[p] \in {"unset", "page"}
                /\ result'[p].kind # "raised"
                /\ \A i \in 1..Len(trace'[p]) :
                     trace'[p][i].res \notin {"timeout", "error"}

SpecRace == RaceInit /\ [][RaceNext]_vars

\* ------------------------------------------------------- reading the state
Done(p) == pc[p] = "done"
Indices(p) == 1..Len(trace[p])

\* The calls of the Field-Fill Sequencer, in order.
IsKeyboard(e) == e.op \in {"keyboard.type", "keyboard.press"}
Keyboard(p) == SelectSeq(trace[p], IsKeyboard)
SequencerFailed(p) == \E i \in Indices(p) : IsKeyboard(trace[p][i]) /\ trace[p][i].res # "ok"

\* The notifications that were delivered.
IsDelivered(e) == e.op = "notify_user" /\ e.res = "ok"
Notified(p) == SelectSeq(trace[p], IsDelivered)
NotifiedAs(p, type) == \E i \in Indices(p) : IsDelivered(trace[p][i]) /\ trace[p][i].target = type

\* Calls that act on the page (snapshot included), as opposed to reading the
\* configuration or notifying.
IsPageCall(e) == e.op \notin {"environ.get", "notify_user"}

\* The sign-in affordance was seen visible (hidden).
SawSignIn(p, how) == \E i \in Indices(p) : trace[p][i].op = "is_visible" /\ trace[p][i].res = how
SignInAt(p) == CHOOSE i \in Indices(p) : trace[p][i].op = "is_visible"

\* The calls of the authentication branch.
IsAuthCall(e) ==
  \/ e.op = "click" /\ e.target \in {"link:Sign in", "button:Next", "label:Enter your password"}
  \/ e.op \in {"fill", "press", "wait_for_selector", "wait_for_url"}
AuthCalls(p) == SelectSeq(trace[p], IsAuthCall)

\* A failure, or the chain it carries, holds the text m.
Carries(r, m) == Has(m, r.value) \/ \E i \in 1..Len(r.chain) : Has(m, r.chain[i])

\* ------------------------------------------------------------------ claims

\* C1: a failure of a type or focus-advance action of the sequencer is never
\* swallowed: the outcome's summary holds "Error", nothing is returned, no
\* success notification is emitted, and the invocation ends in a raised
\* failure that carries the outcome's detailed message.
C1_SequencerFailureEscalated ==
  \A p \in Callers :
    SequencerFailed(p) =>
      /\ Has("Error", outcome[p].summary_message)
      /\ result[p].kind # "returned"
      /\ ~NotifiedAs(p, "ACTION")
      /\ pc[p] \in {"inspect", "except_exception", "done"}
      /\ Done(p) => /\ result[p].kind = "raised"
                    /\ Carries(result[p], outcome[p].detailed_message)

C1_Witness ==
  \E p \in Callers :
    /\ Done(p) /\ SequencerFailed(p)
    /\ result[p].type = "ValueError"
    /\ Has(outcome[p].detailed_message, result[p].value)

\* C2 (as stated): whenever the invocation has ended and every call of it
\* succeeded up to and including the typing of the body, a success string was
\* returned; in every other case it ended in a raised failure.
C2_SuccessReturnsOrRaises ==
  \A p \in Callers :
    Done(p) =>
      IF /\ \A i \in Indices(p) : trace[p][i].res \in {"ok", "visible", "hidden"}
         /\ Len(Keyboard(p)) = 5
      THEN /\ result[p].kind = "returned"
           /\ Has("successfully", result[p].value)
      ELSE result[p].kind = "raised"

\* C3: a returned value is exactly "Email composed successfully for
\* <recipient>." for the request's recipient, whatever subject and body are.
C3_ReturnedValue ==
  \A p \in Callers :
    result[p].kind = "returned" =>
      /\ result[p].value = "Email composed successfully for " \o req[p].recipient \o "."
      /\ Has(req[p].recipient, result[p].value)
      /\ req[p].recipient = "a@b.com"
           => result[p].value = "Email composed successfully for a@b.com."

C3_Witness ==
  \E p \in Callers :
    /\ result[p].kind = "returned"
    /\ req[p] = [recipient |-> "a@b.com", subject |-> "Hi", body |-> "Hello there"]
    /\ SawSignIn(p, "hidden")
    /\ result[p].value = "Email composed successfully for a@b.com."

\* C4 (as stated): every invocation that ended in a failure raised by
\* composeEmail itself (precondition, configuration, UI-timing or generic: a
\* ValueError) delivered an error-severity notification before.
C4_EveryFailureNotified ==
  \A p \in Callers :
    Done(p) /\ result[p].kind = "raised" /\ result[p].type = "ValueError"
      => NotifiedAs(p, "ERROR")

\* C4 (amended): every ValueError raised after an active page was obtained
\* (configuration, UI-timing, generic, escalated sequencer failure) follows a
\* delivered error-severity notification with the same message, the last call
\* of the invocation; the precondition failure is raised with no notification.
C4_HandlerFailureNotified ==
  \A p \in Callers :
    Done(p) /\ result[p].kind = "raised" =>
      /\ page[p] = "page" /\ result[p].type = "ValueError"
           => /\ trace[p] # <<>>
              /\ trace[p][Len(trace[p])] =
                   Entry("notify_user", "ERROR", result[p].value, 0, "ok")
      /\ page[p] = "none" => Notified(p) = <<>>

C4_Witness ==
  \E p \in Callers :
    /\ Done(p) /\ result[p].kind = "raised" /\ page[p] = "page"
    /\ result[p].type = "ValueError"
    /\ Has("Timeout error: ", result[p].value)
    /\ NotifiedAs(p, "ERROR")

\* C5: without a Session Handle the invocation ends at once in the
\* precondition error, with no snapshot, navigation, sign-in detection or any
\* other collaborator call.
C5_NoPageNoInteraction ==
  \A p \in Callers :
    page[p] = "none" =>
      /\ Done(p)
      /\ result[p].kind = "raised"
      /\ result[p].type = "ValueError"
      /\ Has("No active page found", result[p].value)
      /\ trace[p] = <<>>

C5_Witness ==
  \E p \in Callers :
    /\ page[p] = "none" /\ Done(p)
    /\ result[p].value = "Error: No active page found. OpenURL command opens a new page."

\* C6: with the sign-in affordance visible and EMAIL or PASSWORD unset or
\* empty, no call acts on the page after the affordance was detected (no
\* click, no entry of identifier or password), nothing is returned, and the
\* invocation ends in a raised failure carrying the configuration error.
C6_MissingCredentialsStop ==
  \A p \in Callers :
    /\ SawSignIn(p, "visible")
    /\ \E n \in {"EMAIL", "PASSWORD"} : environ[n] = None \/ environ[n] = Some("")
    => /\ \A j \in Indices(p) : j > SignInAt(p) => ~IsPageCall(trace[p][j])
       /\ AuthCalls(p) = <<>>
       /\ pc[p] \in {"except_exception", "done"}
       /\ result[p].kind # "returned"
       /\ Done(p) =>
            /\ result[p].kind = "raised"
            /\ Carries(result[p], "EMAIL or PASSWORD environment variables are not set.")

C6_Witness ==
  \E p \in Callers :
    /\ SawSignIn(p, "visible") /\ Done(p)
    /\ environ["EMAIL"] = Some("user@example.com") /\ environ["PASSWORD"] = Some("")
    /\ result[p].type = "ValueError"
    /\ Has("EMAIL or PASSWORD environment variables are not set.", result[p].value)

\* C7: with the sign-in affordance not visible, the invocation reads no
\* credential and makes no call of the authentication branch.
C7_NoSignInNoAuthentication ==
  \A p \in Callers :
    SawSignIn(p, "hidden") =>
      /\ \A i \in Indices(p) : trace[p][i].op # "environ.get"
      /\ AuthCalls(p) = <<>>
      /\ cred[p] = NoCred
      /\ pc[p] \notin {"sign_in_click", "fill_email", "click_next", "wait_for_password",
                       "password_click", "password_fill", "password_press", "wait_for_url"}

C7_Witness ==
  \E p \in Callers :
    /\ SawSignIn(p, "hidden") /\ result[p].kind = "returned"
    /\ environ["EMAIL"] # None /\ environ["PASSWORD"] # None

\* The authentication branch as written, for credentials c.
AuthSequence(c) ==
  << <<"click", "link:Sign in", "", 0>>,
     <<"fill", "label:Email or phone", c.email[1], 0>>,
     <<"click", "button:Next", "", 0>>,
     <<"wait_for_selector", "input[type=\"password\"]", "visible", 0>>,
     <<"click", "label:Enter your password", "", 0>>,
     <<"fill", "label:Enter your password", c.password[1], 0>>,
     <<"press", "label:Enter your password", "Enter", 0>>,
     <<"wait_for_url", "https://mail.google.com/mail/u/0/", "", 30000>> >>

Call(e) == <<e.op, e.target, e.text, e.timeout>>
IsComposeClick(e) == e.op = "click" /\ e.target = "button:Compose"

\* C8: with the sign-in affordance visible and both credentials set, the
\* authentication calls are made once each and in the written order
\* (identifier, Next, password wait, password, submit, landing wait of
\* 30000 ms), and the compose affordance is clicked only after the landing
\* wait was satisfied.
C8_AuthenticationOrder ==
  \A p \in Callers :
    /\ SawSignIn(p, "visible")
    /\ environ["EMAIL"] = Some("user@example.com")
    /\ environ["PASSWORD"] = Some("hunter2")
    => LET auth == AuthCalls(p)
           want == AuthSequence([email |-> environ["EMAIL"],
                                 password |-> environ["PASSWORD"]])
       IN /\ Len(auth) <= Len(want)
          /\ \A k \in 1..Len(auth) :
               /\ Call(auth[k]) = want[k]
               /\ k < Len(auth) => auth[k].res = "ok"
          /\ \A i \in Indices(p) :
               IsComposeClick(trace[p][i]) =>
                 /\ Len(auth) = Len(want)
                 /\ trace[p][i - 1] =
                      Entry("wait_for_url", "https://mail.google.com/mail/u/0/",
                            "", 30000, "ok")
          /\ pc[p] \notin {"is_visible", "sign_in_click", "fill_email", "click_next",
                           "wait_for_password", "password_click", "password_fill",
                           "password_press", "wait_for_url",
                           "except_timeout", "except_exception", "done"}
               => Len(auth) = Len(want) /\ auth[Len(want)].res = "ok"
          /\ result[p].kind = "returned" => Len(auth) = Len(want)

C8_Witness ==
  \E p \in Callers :
    /\ SawSignIn(p, "visible")
    /\ result[p].kind = "returned"
    /\ Len(AuthCalls(p)) = 8
    /\ \E i \in Indices(p) : IsComposeClick(trace[p][i])

\* The five actions of the sequencer for a request.
FillSequence(r) ==
  << <<"keyboard.type", r.recipient>>, <<"keyboard.press", "Tab">>,
     <<"keyboard.type", r.subject>>, <<"keyboard.press", "Tab">>,
     <<"keyboard.type", r.body>> >>

Key(e) == <<e.op, e.text>>
SequencerEnded(p) == outcome[p] # NoOutcome
KeysOf(p) == [k \in 1..Len(Keyboard(p)) |-> Key(Keyboard(p)[k])]

\* C9 (as stated): every run of the sequencer performs exactly three type
\* actions and two focus-advance actions, in the order recipient, advance,
\* subject, advance, body.
C9_AlwaysFiveActions ==
  \A p \in Callers : SequencerEnded(p) => KeysOf(p) = FillSequence(req[p])

\* C9 (amended): every run of the sequencer in which no action fails performs
\* exactly three type actions and two focus-advance actions, in the order
\* recipient, advance, subject, advance, body; a run in which an action fails
\* ends at that action, having performed the actions before it in that order.
C9_FiveActionsUnlessFailure ==
  \A p \in Callers :
    SequencerEnded(p) =>
      LET ks == Keyboard(p)
      IN IF \A k \in 1..Len(ks) : ks[k].res = "ok"
         THEN KeysOf(p) = FillSequence(req[p])
         ELSE /\ Len(ks) <= 5
              /\ ks[Len(ks)].res # "ok"
              /\ \A k \in 1..Len(ks) :
                   /\ Key(ks[k]) = FillSequence(req[p])[k]
                   /\ k < Len(ks) => ks[k].res = "ok"

C9_Witness ==
  \E p \in Callers :
    /\ SequencerEnded(p)
    /\ \A k \in 1..Len(Keyboard(p)) : Keyboard(p)[k].res = "ok"
    /\ req[p].subject = "Re: Error"
    /\ fields = <<req[p].recipient, req[p].subject, req[p].body>>

\* C10: a failure at any of the five actions of the sequencer does not leave
\* it as an exception: the sequencer returns an outcome whose summary holds
\* "Error" and the recipient, and whose detail holds the failure's message.
C10_SequencerNeverRaises ==
  \A p \in Callers :
    SequencerFailed(p) =>
      LET ks == Keyboard(p)
          failed == Failure(ks[Len(ks)].res)
      IN /\ SequencerEnded(p)
         /\ Has("Error", outcome[p].summary_message)
         /\ Has(req[p].recipient, outcome[p].summary_message)
         /\ Has(failed.msg, outcome[p].detailed_message)
         /\ exc[p].type \notin {"PlaywrightTimeoutError", "Error"}
         /\ pc[p] # "except_timeout"

C10_Witness ==
  \E p \in Callers :
    /\ SequencerFailed(p)
    /\ Len(Keyboard(p)) = 4
    /\ Keyboard(p)[4].res = "timeout"
    /\ pc[p] = "inspect"
    /\ Has("Timeout 30000ms exceeded.", outcome[p].detailed_message)

\* Python's t.startswith(m).
StartsWith(t, m) == Len(t) >= Len(m) /\ SubSeq(t, 1, Len(m)) = m
LastCall(p) == trace[p][Len(trace[p])]

\* A call of the workflow (not the handler's own notification) timed out.
TimedOut(p) ==
  \E i \in Indices(p) : trace[p][i].res = "timeout" /\ trace[p][i].target # "ERROR"
TimedOutOutsideSequencer(p) ==
  \E i \in Indices(p) :
    /\ trace[p][i].res = "timeout" /\ trace[p][i].target # "ERROR"
    /\ ~IsKeyboard(trace[p][i])

\* C11 (as stated): whatever step of the invocation timed out, the
\* invocation ends in the failure "Timeout error: ...", raised after an
\* error-severity notification with that message (the notification call
\* itself succeeding).
C11_EveryTimeoutReported ==
  \A p \in Callers :
    Done(p) /\ TimedOut(p) /\ LastCall(p).res = "ok" =>
      /\ result[p].kind = "raised"
      /\ StartsWith(result[p].value, "Timeout error: ")
      /\ LastCall(p) = Entry("notify_user", "ERROR", result[p].value, 0, "ok")

\* C11 (amended): a timeout of any awaited call of the workflow other than
\* the sequencer's keyboard actions (snapshot, navigation, sign-in detection,
\* authentication waits, compose click, confirmation wait, success
\* notification) is turned into the message "Timeout error: ...", sent as an
\* error notification and, once that is delivered, raised as a ValueError
\* with that message; a timeout of a keyboard action is returned by the
\* sequencer as an error outcome and ends in the generic failure instead.
C11_TimeoutOutsideSequencerReported ==
  \A p \in Callers :
    LET timing == "Timeout error: Timeout 30000ms exceeded.. The page might be loading slowly or the element might not be present."
    IN /\ TimedOutOutsideSequencer(p) =>
            /\ pc[p] \in {"except_timeout", "done"}
            /\ Done(p) =>
                 /\ result[p].kind = "raised"
                 /\ LastCall(p).op = "notify_user" /\ LastCall(p).target = "ERROR"
                 /\ LastCall(p).text = timing
                 /\ LastCall(p).res = "ok" =>
                      result[p].type = "ValueError" /\ result[p].value = timing
       /\ TimedOut(p) /\ ~TimedOutOutsideSequencer(p) =>
            /\ pc[p] \in {"inspect", "except_exception", "done"}
            /\ Done(p) =>
                 /\ result[p].kind = "raised"
                 /\ LastCall(p).res = "ok" =>
                      StartsWith(result[p].value, "Failed to compose email. Error: ")

C11_Witness ==
  \E p \in Callers :
    /\ Done(p)
    /\ \E i \in Indices(p) :
         trace[p][i] = Entry("wait_for", "text:New Message", "visible", 0, "timeout")
    /\ result[p].type = "ValueError"
    /\ StartsWith(result[p].value, "Timeout error: ")
    /\ LastCall(p) = Entry("notify_user", "ERROR", result[p].value, 0, "ok")

\* C12 (as stated): every failure an invocation ends in is of the one kind
\* ValueError, whatever its cause, a failing collaborator call inside the
\* workflow or inside a failure handler included.
C12_OneFailureKind ==
  \A p \in Callers :
    Done(p) /\ result[p].kind = "raised" => result[p].type = "ValueError"

\* C13: with every awaited call ending (satisfied or at its ceiling), an
\* invocation that was started reaches its end, and it ends either with the
\* returned success string or with a raised failure.
C13_Terminates ==
  \A p \in Callers :
    (pc[p] = "get_current_page")
      ~> (Done(p) /\ result[p].kind \in {"returned", "raised"})

C13_Witness ==
  \E p \in Callers :
    /\ Done(p) /\ result[p].kind = "returned"
    /\ \E i \in Indices(p) : trace[p][i].op = "goto"
    /\ \E i \in Indices(p) : trace[p][i].op = "wait_for_url"

\* A call that failed.
IsFailed(e) == e.res \in {"timeout", "error"}
AnyFailed(p) == \E i \in Indices(p) : IsFailed(trace[p][i])
FirstFailed(p) ==
  CHOOSE i \in Indices(p) :
    IsFailed(trace[p][i]) /\ \A j \in 1..(i - 1) : ~IsFailed(trace[p][j])
CountOf(p, op) == Len(SelectSeq(trace[p], LAMBDA e : e.op = op))

\* C14: an invocation makes each of its calls at most once (three type and
\* two focus-advance actions at most), and after the first call that fails
\* it makes no further call on the page: what remains is one error
\* notification and the raise.
C14_SingleAttempt ==
  \A p \in Callers :
    /\ \A i, j \in Indices(p) :
         i < j /\ ~IsKeyboard(trace[p][i]) /\ ~IsKeyboard(trace[p][j])
           => <<trace[p][i].op, trace[p][i].target>> # <<trace[p][j].op, trace[p][j].target>>
    /\ CountOf(p, "keyboard.type") <= 3
    /\ CountOf(p, "keyboard.press") <= 2
    /\ AnyFailed(p) =>
         LET f == FirstFailed(p)
             rest == SubSeq(trace[p], f + 1, Len(trace[p]))
         IN /\ result[p].kind # "returned"
            /\ Done(p) => result[p].kind = "raised"
            /\ IF trace[p][f].op = "notify_user" /\ trace[p][f].target = "ERROR"
               THEN rest = <<>> /\ Done(p)
               ELSE /\ Len(rest) <= 1
                    /\ \A k \in 1..Len(rest) :
                         rest[k].op = "notify_user" /\ rest[k].target = "ERROR"
                    /\ Len(rest) = 1 <=> Done(p)

C14_Witness ==
  \E p \in Callers :
    /\ Done(p) /\ AnyFailed(p)
    /\ trace[p][FirstFailed(p)] = Entry("click", "button:Compose", "", 0, "error")
    /\ Len(trace[p]) = FirstFailed(p) + 1
    /\ LastCall(p).op = "notify_user" /\ LastCall(p).res = "ok"

IsConfirmationWait(e) == e.op = "wait_for" /\ e.target = "text:New Message"

\* C15: every type or focus-advance action follows a successful click on the
\* compose affordance and a satisfied wait for the text "New Message"; when
\* the click or the wait fails, no such action is performed.
C15_SequencerAfterComposeOpen ==
  \A p \in Callers :
    /\ \A k \in Indices(p) :
         IsKeyboard(trace[p][k]) =>
           \E i, j \in Indices(p) :
             /\ i < j /\ j < k
             /\ trace[p][i] = Entry("click", "button:Compose", "", 0, "ok")
             /\ trace[p][j] = Entry("wait_for", "text:New Message", "visible", 0, "ok")
    /\ (\E i \in Indices(p) :
          /\ IsComposeClick(trace[p][i]) \/ IsConfirmationWait(trace[p][i])
          /\ trace[p][i].res # "ok")
         => /\ Keyboard(p) = <<>>
            /\ pc[p] \in {"except_timeout", "except_exception", "done"}
    /\ pc[p] = "type_recipient" => IsConfirmationWait(LastCall(p)) /\ LastCall(p).res = "ok"

C15_Witness ==
  \E p \in Callers :
    /\ Len(Keyboard(p)) = 1
    /\ LastCall(p) = Entry("keyboard.type", "", "a@b.com", 0, "ok")
    /\ IsConfirmationWait(trace[p][Len(trace[p]) - 1])
    /\ IsComposeClick(trace[p][Len(trace[p]) - 2])

\* C16: the page is navigated to the target application exactly when the
\* location read at the start of the workflow does not hold
\* "mail.google.com": then once, to https://mail.google.com/ with
\* wait_until network idle, and before the sign-in detection; a page already
\* at the target application is not navigated.
C16_NavigateIffNotAtTarget ==
  \A p \in Callers :
    /\ CountOf(p, "goto") <= 1
    /\ \A k \in Indices(p) :
         /\ trace[p][k].op = "goto" =>
              /\ k > 1
              /\ trace[p][k - 1].op = "url"
              /\ ~Has("mail.google.com", trace[p][k - 1].text)
              /\ trace[p][k].target = "https://mail.google.com/"
              /\ trace[p][k].text = "networkidle"
              /\ \A i \in 1..k : trace[p][i].op # "is_visible"
         /\ trace[p][k].op = "url" =>
              IF Has("mail.google.com", trace[p][k].text)
              THEN CountOf(p, "goto") = 0 /\ pc[p] # "goto"
              ELSE IF k = Len(trace[p]) THEN pc[p] = "goto"
                   ELSE trace[p][k + 1].op = "goto"
         /\ trace[p][k].op = "is_visible" =>
              \/ trace[p][k - 1].op = "url"
              \/ trace[p][k - 1].op = "goto" /\ trace[p][k - 1].res = "ok"

C16_Witness ==
  \E p \in Callers :
    \E k \in Indices(p) :
      /\ k > 1 /\ k < Len(trace[p])
      /\ trace[p][k - 1] = Entry("url", "", "about:blank", 0, "ok")
      /\ trace[p][k] = Entry("goto", "https://mail.google.com/", "networkidle", 0, "ok")
      /\ trace[p][k + 1].op = "is_visible"

IsSnapshot(e, label) == e.op = "take_screenshots" /\ e.target = label

\* C17: the "start" snapshot is the first call of the workflow, before any
\* navigation or page interaction; the "end" snapshot is taken only right
\* after the delivered success notification, only when the sequencer
\* returned a success outcome, and never after a call that failed.
C17_SnapshotsBracket ==
  \A p \in Callers :
    \A k \in Indices(p) :
      /\ IsSnapshot(trace[p][k], "compose_email_start") <=> k = 1
      /\ IsSnapshot(trace[p][k], "compose_email_end") =>
           /\ k > 1
           /\ trace[p][k - 1] =
                Entry("notify_user", "ACTION",
                      "Email composed successfully for " \o req[p].recipient \o ".",
                      0, "ok")
           /\ \A i \in 1..(k - 1) : ~IsFailed(trace[p][i])
           /\ Len(Keyboard(p)) = 5
           /\ SequencerEnded(p)
           /\ ~Has("Error", outcome[p].summary_message)

C17_Witness ==
  \E p \in Callers :
    /\ Len(trace[p]) > 1
    /\ trace[p][1] = Entry("take_screenshots", "compose_email_start", "", 0, "ok")
    /\ IsSnapshot(LastCall(p), "compose_email_end")
    /\ LastCall(p).res = "timeout"

\* C18: nothing serializes two invocations on the one page: an invocation
\* under way can always take its next step, wherever the other invocation
\* stands; the witness is the interleaving in which both recipients are typed
\* into the recipient field, both subjects into the body field, the bodies
\* nowhere, and both invocations return their success string.
C18_NoLocking ==
  \A p \in Callers :
    /\ pc[p] \notin {"idle", "done"} => ENABLED Step(p)
    /\ result[p].kind = "returned" =>
         result[p].value = "Email composed successfully for " \o req[p].recipient \o "."

C18_Witness ==
  /\ \A p \in Callers :
       /\ Done(p) /\ result[p].kind = "returned"
       /\ result[p].value = "Email composed successfully for a@b.com."
       /\ fields # <<req[p].recipient, req[p].subject, req[p].body>>
  /\ fields = <<"a@b.coma@b.com", "", "HiRe: Error">>

\* Actions performed when the sequencer stands at a given place.
PerformedAt(label) ==
  CASE label = "type_recipient" -> 0
    [] label = "tab_recipient" -> 1
    [] label = "type_subject" -> 2
    [] label = "tab_subject" -> 3
    [] label = "type_body" -> 4
    [] label = "sequencer_return" -> 5
    [] OTHER -> -1

\* C19: at every moment of every run, failing runs included, the actions the
\* sequencer has performed are a prefix of [type recipient, advance, type
\* subject, advance, type body]: none skipped, reordered or repeated, none
\* after the first failing one; and a success outcome is returned only after
\* all five succeeded.
C19_PerformedActionsArePrefix ==
  \A p \in Callers :
    LET ks == Keyboard(p)
    IN /\ Len(ks) <= 5
       /\ \A k \in 1..Len(ks) :
            /\ Key(ks[k]) = FillSequence(req[p])[k]
            /\ ks[k].res # "ok" => k = Len(ks)
       /\ PerformedAt(pc[p]) >= 0 =>
            /\ Len(ks) = PerformedAt(pc[p])
            /\ \A k \in 1..Len(ks) : ks[k].res = "ok"
       /\ StartsWith(outcome[p].summary_message, "Email composed successfully") =>
            /\ Len(ks) = 5
            /\ \A k \in 1..5 : ks[k].res = "ok"

C19_Witness ==
  \E p \in Callers :
    /\ Done(p)
    /\ Len(Keyboard(p)) = 3
    /\ Keyboard(p)[3] = Entry("keyboard.type", "", "Re: Error", 0, "error")
    /\ StartsWith(outcome[p].summary_message, "Error composing email for ")

\* C20 (as stated): an invocation that got past the active-page precondition
\* (its notification calls succeeding) ends with exactly one delivered
\* notification, never with both kinds: the success (ACTION) notification
\* exactly when it returns, the ERROR notification exactly when it raises.
C20_ExactlyOneNotification ==
  \A p \in Callers :
    /\ Done(p) /\ page[p] = "page"
    /\ \A i \in Indices(p) : trace[p][i].op = "notify_user" => trace[p][i].res = "ok"
    => /\ ~(NotifiedAs(p, "ACTION") /\ NotifiedAs(p, "ERROR"))
       /\ Len(Notified(p)) = 1
       /\ result[p].kind = "returned" <=> NotifiedAs(p, "ACTION")
       /\ result[p].kind = "raised" <=> NotifiedAs(p, "ERROR")

====
